---------------------------- MODULE Spec2Model ----------------------------
(***************************************************************************)
(* PdfPageData.toText (src/src/pdfpagedata.ts): reconstruction of the text *)
(* of a page from its positioned text items.                               *)
(*                                                                         *)
(* A text item is a record [id, str, x, y]: id is the identity of the      *)
(* object (its position in the page's item list, or -c for the divider of  *)
(* column break c), str the string as a sequence of characters, x          *)
(* transform[4] and y transform[5].  x is an exact rational [n, d] (n/d),  *)
(* because the column breaks c * maxX / columns are fractions; n/0 with    *)
(* n < 0 is -Infinity, the value of Math.max() over no arguments.  The     *)
(* coordinates of the model are small integers, for which the rounding of  *)
(* IEEE doubles changes no comparison.                                     *)
(* An optional argument is a set: {} when undefined, {v} when given.       *)
(***************************************************************************)
EXTENDS Integers, Sequences, FiniteSets

\* ---- bounds of the model ----
MaxLen == 2
MaxColumns == 3

\* the coordinates the pages of the model are drawn from
XValues == 0..2
YValues == (-1)..1

Letters == <<"a", "b", "c", "d", "e", "f">>

Val(o) == CHOOSE v \in o : TRUE

\* ---- exact arithmetic on transform[4] ----
Rat(k) == [n |-> k, d |-> 1]
NegInfinity == [n |-> -1, d |-> 0]
Less(a, b) == a.n * b.d < b.n * a.d

\* the boolean read the wrong way round
SortOptionInverted(s) ==
  IF s \in {"true", "false"} THEN (IF s = "true" THEN "null" ELSE "ASC") ELSE s

\* typeof sort === 'boolean' ? (sort ? Sort.ASC : null) : sort
SortOption(s) ==
  IF s \in {"true", "false"} THEN (IF s = "true" THEN "ASC" ELSE "null") ELSE s

\* the column breaks computed without the test of sortOption
ColumnModeAnySort(so, cols) == cols # {} /\ Val(cols) # 0 /\ Val(cols) > 1

\* columns && columns > 1, inside sortOption !== null
ColumnMode(so, cols) ==
  so # "null" /\ cols # {} /\ Val(cols) # 0 /\ Val(cols) > 1

\* Math.max(...items.map(i => i.transform[4]))
MaxOffsetX(its) ==
  IF its = <<>> THEN NegInfinity
  ELSE its[CHOOSE i \in 1..Len(its) :
             \A j \in 1..Len(its) : ~Less(its[i].x, its[j].x)].x

\* maxX / columns, the index of the break left out
BoundaryWithoutIndex(c, mx, cols) ==
  IF mx.d = 0 THEN mx ELSE [n |-> mx.n, d |-> mx.d * cols]

\* c * maxX / columns
Boundary(c, mx, cols) ==
  IF mx.d = 0 THEN mx ELSE [n |-> c * mx.n, d |-> mx.d * cols]

\* the column breaks pushed by the loop c = 1 .. columns-1
ColumnBreaks(its, so, cols) ==
  IF ColumnMode(so, cols)
  THEN [c \in 1..(Val(cols) - 1) |-> Boundary(c, MaxOffsetX(its), Val(cols))]
  ELSE <<>>

\* { str: columnDivider, transform: [0, 0, 0, 1, c * maxX / columns - 1, 0] }
DividerItem(c, b, divider) ==
  [id |-> -c, str |-> Val(divider), x |-> [n |-> b.n - b.d, d |-> b.d], y |-> 0]

\* items after the dividers were pushed
WithDividers(its, so, cols, divider) ==
  IF ColumnMode(so, cols) /\ divider # {}
  THEN its \o [c \in 1..(Val(cols) - 1) |->
                 DividerItem(c, ColumnBreaks(its, so, cols)[c], divider)]
  ELSE its

\* columnBreaks.findIndex(b => b > x): 0-based, -1 when there is none
FindIndex(cb, x) ==
  IF \E i \in 1..Len(cb) : Less(x, cb[i])
  THEN (CHOOSE i \in 1..Len(cb) :
          Less(x, cb[i]) /\ \A j \in 1..(i - 1) : ~Less(x, cb[j])) - 1
  ELSE -1

Abs(k) == IF k < 0 THEN -k ELSE k

\* fuzzy !== undefined && fuzzy > 0 && yDiff <= fuzzy
IsFuzzy(fz, yDiff) == fz # {} /\ Val(fz) > 0 /\ yDiff <= Val(fz)

\* the comparator of Sort.ASC
CompareASC(e1, e2, cb, fz) ==
  LET column1 == FindIndex(cb, e1.x)
      column2 == FindIndex(cb, e2.x)
      isFuzzy == IsFuzzy(fz, Abs(e1.y - e2.y))
  IN  IF column1 # column2 THEN column2 - column1
      ELSE IF ~isFuzzy /\ e1.y < e2.y THEN 1
      ELSE IF ~isFuzzy /\ e1.y > e2.y THEN -1
      ELSE IF Less(e1.x, e2.x) THEN -1
      ELSE IF Less(e2.x, e1.x) THEN 1
      ELSE 0

\* the comparator of Sort.DESC
CompareDESC(e1, e2, cb, fz) ==
  LET column1 == FindIndex(cb, e1.x)
      column2 == FindIndex(cb, e2.x)
      isFuzzy == IsFuzzy(fz, Abs(e1.y - e2.y))
  IN  IF column1 # column2 THEN column1 - column2
      ELSE IF ~isFuzzy /\ e1.y < e2.y THEN -1
      ELSE IF ~isFuzzy /\ e1.y > e2.y THEN 1
      ELSE IF Less(e1.x, e2.x) THEN 1
      ELSE IF Less(e2.x, e1.x) THEN -1
      ELSE 0

Compare(e1, e2, so, cb, fz) ==
  IF so = "ASC" THEN CompareASC(e1, e2, cb, fz) ELSE CompareDESC(e1, e2, cb, fz)

Sign(k) == IF k < 0 THEN -1 ELSE IF k > 0 THEN 1 ELSE 0

\* ECMAScript: the comparator is a consistent comparator for the items
\* (a = a; a < b iff b > a; =, < and their mixtures are transitive)
Consistent(its, so, cb, fz) ==
  LET n == Len(its)
      s(i, j) == Sign(Compare(its[i], its[j], so, cb, fz))
  IN  /\ \A i \in 1..n : s(i, i) = 0
      /\ \A i, j \in 1..n : i < j => s(i, j) = -s(j, i)
      /\ \A i, j \in 1..n : i # j =>
            LET ij == s(i, j)
            IN  ij <= 0 =>
                  \A k \in 1..n : (k # i /\ k # j) =>
                    LET jk == s(j, k)
                    IN  jk <= 0 =>
                          IF ij = 0 /\ jk = 0 THEN s(i, k) = 0 ELSE s(i, k) < 0

\* the orders of the indices in S
RECURSIVE Permutations(_)
Permutations(S) ==
  IF S = {} THEN {<<>>}
  ELSE UNION {{Append(p, i) : p \in Permutations(S \ {i})} : i \in S}

\* e placed behind the last element of the sorted s that does not follow it
Insert(s, e, so, cb, fz) ==
  LET before == {i \in 1..Len(s) : Compare(s[i], e, so, cb, fz) <= 0}
      k == IF before = {} THEN 0
           ELSE CHOOSE i \in before : \A j \in before : j <= i
  IN  SubSeq(s, 1, k) \o <<e>> \o SubSeq(s, k + 1, Len(s))

\* the stable order of its under a consistent comparator
RECURSIVE StableSort(_, _, _, _)
StableSort(its, so, cb, fz) ==
  IF its = <<>> THEN <<>>
  ELSE Insert(StableSort(SubSeq(its, 1, Len(its) - 1), so, cb, fz),
              its[Len(its)], so, cb, fz)

\* Array.prototype.sort: with a consistent comparator the one stable order,
\* otherwise an implementation-defined order of the same items
SortOutcomes(its, so, cb, fz) ==
  IF so = "null" THEN {its}
  ELSE IF Consistent(its, so, cb, fz) THEN {StableSort(its, so, cb, fz)}
  ELSE {[i \in 1..Len(its) |-> its[p[i]]] : p \in Permutations(1..Len(its))}

\* let lastLineY = -1
UnsetLineY == -1

\* the loop round with the space only in front of a nearly aligned item
AssembleItemLeadingSpace(a, item, fz) ==
  LET isFuzzy == IsFuzzy(fz, Abs(a.lastLineY - item.y))
  IN  IF a.lastLineY = UnsetLineY \/ a.lastLineY = item.y \/ isFuzzy
      THEN IF isFuzzy /\ a.lastLineY # item.y
           THEN [lastLineY |-> item.y,
                 text |-> a.text \o <<" ">> \o item.str,
                 emits |-> Append(a.emits, [id |-> item.id, sep |-> "space"])]
           ELSE [lastLineY |-> item.y,
                 text |-> a.text \o item.str,
                 emits |-> Append(a.emits, [id |-> item.id, sep |-> "none"])]
      ELSE [lastLineY |-> item.y,
            text |-> a.text \o <<"\n">> \o item.str,
            emits |-> Append(a.emits, [id |-> item.id, sep |-> "newline"])]

\* one round of the loop over the items: a is [lastLineY, text, emits]
AssembleItem(a, item, fz) ==
  LET isFuzzy == IsFuzzy(fz, Abs(a.lastLineY - item.y))
  IN  IF a.lastLineY = UnsetLineY \/ a.lastLineY = item.y \/ isFuzzy
      THEN IF isFuzzy /\ a.lastLineY # item.y
           THEN [lastLineY |-> item.y,
                 text |-> a.text \o <<" ">> \o item.str \o <<" ">>,
                 emits |-> Append(a.emits, [id |-> item.id, sep |-> "space"])]
           ELSE [lastLineY |-> item.y,
                 text |-> a.text \o item.str,
                 emits |-> Append(a.emits, [id |-> item.id, sep |-> "none"])]
      ELSE [lastLineY |-> item.y,
            text |-> a.text \o <<"\n">> \o item.str,
            emits |-> Append(a.emits, [id |-> item.id, sep |-> "newline"])]

RECURSIVE Assemble(_, _)
Assemble(its, fz) ==
  IF its = <<>>
  THEN [lastLineY |-> UnsetLineY, text |-> <<>>, emits |-> <<>>]
  ELSE AssembleItem(Assemble(SubSeq(its, 1, Len(its) - 1), fz), its[Len(its)], fz)

\* ---- inputs ----
Geometries == XValues \X YValues

PageOf(g) ==
  [i \in 1..Len(g) |->
     [id |-> i, str |-> <<Letters[i]>>, x |-> Rat(g[i][1]), y |-> g[i][2]]]

BoundedPages ==
  UNION {{PageOf(g) : g \in [1..k -> Geometries]} : k \in 0..MaxLen}

ExamplePages ==
  { << [id |-> 1, str |-> <<"f", "o", "o">>, x |-> Rat(0), y |-> 100],
       [id |-> 2, str |-> <<"b", "a", "r">>, x |-> Rat(1), y |-> 101] >>,
    << [id |-> 1, str |-> <<"a">>, x |-> Rat(0), y |-> -2],
       [id |-> 2, str |-> <<"b">>, x |-> Rat(1), y |-> -1] >>,
    << [id |-> 1, str |-> <<"a">>, x |-> Rat(2), y |-> 1],
       [id |-> 2, str |-> <<"b">>, x |-> Rat(1), y |-> 1],
       [id |-> 3, str |-> <<"c">>, x |-> Rat(0), y |-> 1] >> }

Pages == BoundedPages \cup ExamplePages

SortArgs == {"false", "true", "ASC", "DESC"}
ColumnsArgs == {{}} \cup {{k} : k \in (-1)..MaxColumns}
DividerArgs == {{}, {<<"|">>}}
FuzzyArgs == {{}, {0}, {1}, {2}}

VARIABLES page, pc, retrieval, sort, columns, columnDivider, fuzzy,
          items, columnBreaks, maxX, text, emits

vars == <<page, pc, retrieval, sort, columns, columnDivider, fuzzy,
          items, columnBreaks, maxX, text, emits>>

Init ==
  /\ page \in Pages
  /\ pc = "idle"
  /\ retrieval = "idle"
  /\ sort = "false"
  /\ columns = {}
  /\ columnDivider = {}
  /\ fuzzy = {}
  /\ items = <<>>
  /\ columnBreaks = <<>>
  /\ maxX = {}
  /\ text = <<>>
  /\ emits = <<>>

\* toText(sort, columns, columnDivider, fuzzy) calls page.getTextContent
ToText(s, cols, divider, fz) ==
  /\ pc = "idle"
  /\ pc' = "pending"
  /\ retrieval' = "pending"
  /\ sort' = s
  /\ columns' = cols
  /\ columnDivider' = divider
  /\ fuzzy' = fz
  /\ UNCHANGED <<page, items, columnBreaks, maxX, text, emits>>

\* the fulfilment callback of getTextContent
TextContentResolved ==
  /\ pc = "pending"
  /\ LET so == SortOption(sort)
         cb == ColumnBreaks(page, so, columns)
         all == WithDividers(page, so, columns, columnDivider)
     IN  \E sorted \in SortOutcomes(all, so, cb, fuzzy) :
           LET a == Assemble(sorted, fuzzy)
           IN  /\ items' = sorted
               /\ columnBreaks' = cb
               /\ maxX' = IF ColumnMode(so, columns) THEN {MaxOffsetX(page)} ELSE {}
               /\ text' = a.text
               /\ emits' = a.emits
  /\ pc' = "fulfilled"
  /\ retrieval' = "resolved"
  /\ UNCHANGED <<page, sort, columns, columnDivider, fuzzy>>

\* how toText settles when getTextContent rejects, without the handler
RejectionPropagated == [state |-> "rejected", value |-> <<>>]

\* the rejection callback of getTextContent: () => ''
OnRejected == [state |-> "fulfilled", value |-> <<>>]

\* getTextContent rejects
TextContentRejected ==
  /\ pc = "pending"
  /\ text' = OnRejected.value
  /\ pc' = OnRejected.state
  /\ retrieval' = "rejected"
  /\ UNCHANGED <<page, sort, columns, columnDivider, fuzzy,
                 items, columnBreaks, maxX, emits>>

Next ==
  \/ \E s \in SortArgs, cols \in ColumnsArgs, divider \in DividerArgs,
        fz \in FuzzyArgs : ToText(s, cols, divider, fz)
  \/ TextContentResolved
  \/ TextContentRejected

Spec == Init /\ [][Next]_vars

\* ---- the properties ----
Resolved == pc = "fulfilled" /\ retrieval = "resolved"

FuzzyOn == fuzzy # {} /\ Val(fuzzy) > 0

\* the distance of the offsetY of items[i] and of the item before it
YGap(i) == Abs(items[i].y - items[i - 1].y)

\* what an item adds to the output, by the separator noted for it
Piece(sep, str) ==
  IF sep = "space" THEN <<" ">> \o str \o <<" ">>
  ELSE IF sep = "newline" THEN <<"\n">> \o str
  ELSE str

RECURSIVE Render(_)
Render(k) ==
  IF k = 0 THEN <<>> ELSE Render(k - 1) \o Piece(emits[k].sep, items[k].str)

\* the output is the noted pieces of the ordered items, in their order
Rendered ==
  /\ Len(emits) = Len(items)
  /\ \A i \in 1..Len(items) : emits[i].id = items[i].id
  /\ text = Render(Len(items))

Dividers == {i \in 1..Len(items) : items[i].id < 0}

\* C1: toText on an empty fragment sequence returns the empty string, for
\* every sort mode, column count, column divider and fuzziness.
C1_EmptyInputEmptyOutput == (Resolved /\ page = <<>>) => text = <<>>

FooBarText == <<"f", "o", "o", " ", "b", "a", "r">>

\* C2 (as stated): two fragments A, B in that order whose offsetY differ by d,
\* 0 < d <= fuzziness, give A's content, one space, B's content and nothing
\* else ("foo" at 100, "bar" at 101, fuzziness 2: exactly "foo bar").
C2_Original ==
  (Resolved /\ sort = "false" /\ Len(page) = 2 /\ FuzzyOn
     /\ page[1].y # page[2].y /\ Abs(page[1].y - page[2].y) <= Val(fuzzy)
     /\ ~IsFuzzy(fuzzy, Abs(UnsetLineY - page[1].y)))
  => text = page[1].str \o <<" ">> \o page[2].str

\* C2 (amended): a fragment whose offsetY differs from that of the fragment
\* before it in the ordered sequence by d, 0 < d <= fuzziness, is appended as
\* one space, its content and one more space, with no line break ("foo" at
\* 100, "bar" at 101, fuzziness 2: "foo bar " with the trailing space).
C2_FuzzySpacing ==
  Resolved =>
    /\ Rendered
    /\ \A i \in 2..Len(items) :
         (FuzzyOn /\ YGap(i) > 0 /\ YGap(i) <= Val(fuzzy)) => emits[i].sep = "space"
    /\ (sort = "false" /\ fuzzy = {2} /\ Len(page) = 2
          /\ page[1].str = <<"f", "o", "o">> /\ page[1].y = 100
          /\ page[2].str = <<"b", "a", "r">> /\ page[2].y = 101)
       => text = FooBarText \o <<" ">>

C2_Witness ==
  /\ Resolved /\ sort = "false" /\ fuzzy = {2} /\ Len(page) = 2
  /\ page[1].y = 100 /\ page[2].y = 101
  /\ text = FooBarText \o <<" ">>

\* C3: without sorting (sort false) the contents appear in the input order,
\* no divider is injected whatever columns and columnDivider are, and a line
\* break stands before a fragment only if its offsetY differs from that of the
\* fragment just before it in the input.
C3_NoSortIdentity ==
  (Resolved /\ sort = "false") =>
    /\ items = page
    /\ Rendered
    /\ \A i \in 1..Len(page) :
         emits[i].sep = "newline" => (i > 1 /\ page[i].y # page[i - 1].y)

C3_Witness ==
  /\ Resolved /\ sort = "false" /\ columns = {2} /\ columnDivider # {}
  /\ Len(page) = 2 /\ page[1].y < page[2].y /\ Less(page[2].x, page[1].x)
  /\ emits[2].sep = "newline"

Ascending == sort \in {"true", "ASC"}

ExactAlignment == fuzzy \in {{}, {0}}

\* C4: ascending sort, columns absent or 1, fuzziness 0: the lines of the
\* output are in strictly descending offsetY order, one line for each distinct
\* offsetY, and the fragments of a line are in ascending offsetX order.
C4_SingleColumnAscending ==
  (Resolved /\ Ascending /\ columns \in {{}, {1}} /\ ExactAlignment) =>
    \A i \in 1..Len(items) :
      IF i = 1 THEN emits[i].sep = "none"
      ELSE \/ /\ items[i].y = items[i - 1].y
              /\ emits[i].sep = "none"
              /\ ~Less(items[i].x, items[i - 1].x)
           \/ /\ items[i].y < items[i - 1].y
              /\ emits[i].sep = "newline"

\* offsetX is left of maxX / 2, for the maximum offsetX maxX of the page
LeftOfHalf(x) == Less([n |-> 2 * x.n, d |-> x.d], MaxOffsetX(page))

\* C5: ascending sort, two columns, a divider set, a non-empty page: the
\* divider is emitted exactly once, every fragment with offsetX < maxX / 2
\* stands before it in the output and every other fragment after it (stated
\* for exact alignment, where the sort order is determined).
C5_ColumnPartition ==
  (Resolved /\ Ascending /\ columns = {2} /\ columnDivider # {}
     /\ page # <<>> /\ ExactAlignment) =>
    /\ Cardinality(Dividers) = 1
    /\ \A d \in Dividers : \A i \in 1..Len(items) :
         i # d => IF LeftOfHalf(items[i].x) THEN i < d ELSE i > d

\* C6: toText never rejects and its result is a string: the empty string when
\* getTextContent rejects.
Chars == {" ", "\n", "|", "o", "r"} \cup {Letters[i] : i \in 1..Len(Letters)}

C6_AlwaysAString ==
  /\ pc \in {"idle", "pending", "fulfilled"}
  /\ pc = "fulfilled" => \A i \in 1..Len(text) : text[i] \in Chars
  /\ (pc # "pending" /\ retrieval = "rejected") => (pc = "fulfilled" /\ text = <<>>)

C6_Witness ==
  /\ pc = "fulfilled" /\ retrieval = "rejected" /\ text = <<>>
  /\ Len(page) = 2 /\ sort = "DESC" /\ columns = {3} /\ columnDivider # {}

\* C7: when sort is false or columns is absent, 1 or less than 1, the output
\* is an output of the same call without columns and columnDivider: no
\* boundary is computed and no divider is added.
C7_ColumnsOnlyInColumnMode ==
  (Resolved /\ (sort = "false" \/ columns = {} \/ Val(columns) <= 1)) =>
    /\ columnBreaks = <<>>
    /\ Dividers = {}
    /\ Len(items) = Len(page)
    /\ text \in {Assemble(o, fuzzy).text :
                   o \in SortOutcomes(page, SortOption(sort), <<>>, fuzzy)}

C7_Witness ==
  /\ Resolved /\ sort = "false" /\ columns = {3} /\ columnDivider # {}
  /\ Len(page) = 2 /\ text = <<"a", "\n", "b">>

\* the column of the claim: the index of the first boundary greater than x,
\* the last column when there is none
ColumnIndex(x) ==
  IF FindIndex(columnBreaks, x) = -1 THEN Val(columns) - 1
  ELSE FindIndex(columnBreaks, x)

\* C8: ascending sort, two or more columns: every fragment of a lower column
\* stands before every fragment of a higher column in the ordered sequence
\* (stated for exact alignment, where the sort order is determined).
C8_ColumnsInOrder ==
  (Resolved /\ Ascending /\ columns # {} /\ ExactAlignment) =>
    (Val(columns) >= 2 =>
       \A i, j \in 1..Len(items) :
         (i < j /\ items[i].id > 0 /\ items[j].id > 0)
           => ColumnIndex(items[i].x) <= ColumnIndex(items[j].x))

\* C9: a fragment continues the line only if it is the first one, or has the
\* offsetY of the fragment before it, or fuzziness > 0 and the two offsetY
\* differ by at most fuzziness; every other fragment follows one line break;
\* the first fragment has no line break and no space added.
C9_LineStartRule ==
  Resolved =>
    \A i \in 1..Len(items) :
      IF i = 1 THEN emits[i].sep = "none"
      ELSE emits[i].sep # "newline"
             <=> (YGap(i) = 0 \/ (FuzzyOn /\ YGap(i) <= Val(fuzzy)))

InColumnMode == sort # "false" /\ columns # {} /\ Val(columns) >= 2

\* the boundaries are c * m / columns for c = 1 .. columns-1 and m, computed
\* from the page alone, is the maxX of the call
BoundariesOf(m) ==
  /\ maxX = {m}
  /\ Len(columnBreaks) = Val(columns) - 1
  /\ \A c \in 1..Len(columnBreaks) :
       columnBreaks[c].n * m.d * Val(columns) = c * m.n * columnBreaks[c].d

StrictlyIncreasing ==
  \A c \in 1..(Len(columnBreaks) - 1) : Less(columnBreaks[c], columnBreaks[c + 1])

\* C10 (as stated): in column mode the boundaries c * maxOffsetX / columns are
\* strictly increasing in c for every page, maxOffsetX being the maximum
\* offsetX of the fragments of the page, whatever dividers are appended
\* (stated for the pages that have a fragment).
C10_Original ==
  (Resolved /\ InColumnMode /\ page # <<>>)
    => (StrictlyIncreasing /\ BoundariesOf(MaxOffsetX(page)))

\* C10 (amended): in column mode, when the maximum offsetX of the page is
\* greater than 0, the boundaries c * maxOffsetX / columns are strictly
\* increasing in c; maxOffsetX is the maximum offsetX of the fragments of the
\* page, whatever dividers are appended.
C10_BoundariesIncrease ==
  (Resolved /\ InColumnMode /\ page # <<>>) =>
    LET m == CHOOSE x \in {page[i].x : i \in 1..Len(page)} :
               \A i \in 1..Len(page) : ~Less(x, page[i].x)
    IN  /\ BoundariesOf(m)
        /\ m.n > 0 => StrictlyIncreasing

C10_Witness ==
  /\ Resolved /\ sort = "ASC" /\ columns = {3} /\ columnDivider # {}
  /\ Len(page) = 2 /\ Len(columnBreaks) = 2 /\ Len(items) = 4
  /\ Less(Rat(0), columnBreaks[1]) /\ Less(columnBreaks[1], columnBreaks[2])

=============================================================================
